---- MODULE Spec2Model ----
(***************************************************************************)
(* Modular arithmetic layer of electionguard (src/electionguard/group.py). *)
(*                                                                         *)
(* The module is a library of synchronous functions over immutable values, *)
(* so the state machine is that of one call: the state records the         *)
(* call (op, args), what it produced (result: an element, a raised         *)
(* exception, None or a bool) and, for rand_range_q, the only function     *)
(* with a loop, the frame of the call in progress (pc, start, random).     *)
(*                                                                         *)
(* Python values are records [variant, data, value]:                       *)
(*   variant "Q" / "P"  an ElementModQ / ElementModP (data = the hex text, *)
(*                      value = the mpz),                                  *)
(*   variant "int"      a plain int,                                       *)
(*   variant "str"      a str (data = its characters).                     *)
(* Strings are sequences of one-character strings.                         *)
(***************************************************************************)
EXTENDS Integers, Sequences, FiniteSets, TLC

VARIABLES op, args, result, pc, start, random, draws

vars == <<op, args, result, pc, start, random, draws>>

(***************************************************************************)
(* Bounds of the model and constants of the program.                       *)
(***************************************************************************)

\* Longest str handed to a constructor or conversion.
MaxHexLen == 2

\* Plain ints handed to the functions range over [-IntMargin, P + IntMargin].
IntMargin == 2

\* The counter of draws of one rand_range_q call saturates here.
MaxDraws == 3

\* The small prime Q (a scaled-down instance: Q prime, Q divides P - 1).
get_small_prime == 11

\* The large prime P.
get_large_prime == 23

\* R = (P - 1) / Q mod P.
get_cofactor == ((get_large_prime - 1) \div get_small_prime) % get_large_prime

(***************************************************************************)
(* Python values and the outcomes of a call.                               *)
(***************************************************************************)

PyInt(n) == [variant |-> "int", data |-> <<>>, value |-> n]

PyStr(s) == [variant |-> "str", data |-> s, value |-> 0]

NoValue == [variant |-> "none", data |-> <<>>, value |-> 0]

\* The call returned the value e.
Ok(e) == [kind |-> "ok", elem |-> e, err |-> "", flag |-> FALSE]

\* The call raised the exception x.
Raise(x) == [kind |-> "raise", elem |-> NoValue, err |-> x, flag |-> FALSE]

\* The call returned None.
None == [kind |-> "none", elem |-> NoValue, err |-> "", flag |-> FALSE]

\* The call returned the bool b.
Bool(b) == [kind |-> "bool", elem |-> NoValue, err |-> "", flag |-> b]

\* No call has returned yet.
Pending == [kind |-> "pending", elem |-> NoValue, err |-> "", flag |-> FALSE]

isinstance_BaseElement(x) == x.variant \in {"Q", "P"}

isinstance_int(x) == x.variant = "int"

isinstance_str(x) == x.variant = "str"

(***************************************************************************)
(* hex_to_int / int_to_hex                                                 *)
(***************************************************************************)

HexUpper == <<"0", "1", "2", "3", "4", "5", "6", "7", "8", "9", "A", "B", "C", "D", "E", "F">>

HexLower == <<"0", "1", "2", "3", "4", "5", "6", "7", "8", "9", "a", "b", "c", "d", "e", "f">>

IsHexDigit(c) == \E i \in 1..16 : HexUpper[i] = c \/ HexLower[i] = c

DigitValue(c) == (CHOOSE i \in 1..16 : HexUpper[i] = c \/ HexLower[i] = c) - 1

RECURSIVE DigitsValue(_)
DigitsValue(s) ==
    IF s = <<>> THEN 0
    ELSE 16 * DigitsValue(SubSeq(s, 1, Len(s) - 1)) + DigitValue(s[Len(s)])

\* int(input, 16) reads an optional "-", an optional "0x" or "0X", then digits.
HexUnsigned(input) == IF input # <<>> /\ input[1] = "-" THEN Tail(input) ELSE input

HexBody(input) ==
    LET u == HexUnsigned(input)
    IN  IF Len(u) >= 2 /\ u[1] = "0" /\ u[2] \in {"x", "X"}
        THEN SubSeq(u, 3, Len(u))
        ELSE u

\* int(input, 16) raises ValueError: no digit, or a character that is none.
\* (Of what int() reads besides, "+", "_" and blanks are not among HexChars.)
hex_to_int_raises(input) ==
    \/ HexBody(input) = <<>>
    \/ \E i \in 1..Len(HexBody(input)) : ~IsHexDigit(HexBody(input)[i])

\* int(input, 16): case-insensitive digits, any length.
hex_to_int(input) ==
    IF input # <<>> /\ input[1] = "-"
    THEN 0 - DigitsValue(HexBody(input))
    ELSE DigitsValue(HexBody(input))

RECURSIVE HexDigits(_)
HexDigits(n) ==
    IF n < 16 THEN <<HexUpper[n + 1]>>
    ELSE HexDigits(n \div 16) \o <<HexUpper[(n % 16) + 1]>>

\* format(input, "02X"): uppercase digits behind the sign, zero-filled to width 2.
format_02X(input) ==
    IF input < 0 THEN <<"-">> \o HexDigits(0 - input)
    ELSE IF input < 16 THEN <<"0">> \o HexDigits(input)
    ELSE HexDigits(input)

int_to_hex(input) ==
    LET hex == format_02X(input)
    IN  IF Len(hex) % 2 = 1 THEN <<"0">> \o hex ELSE hex

(***************************************************************************)
(* BaseElement, ElementModQ, ElementModP                                   *)
(***************************************************************************)

\* _convert_to_element: the pair (hex, integer).
convert_to_element(data) ==
    IF isinstance_str(data)
    THEN <<data.data, hex_to_int(data.data)>>
    ELSE <<int_to_hex(data.value), data.value>>

get_upper_bound(self) ==
    IF self.variant = "Q" THEN get_small_prime ELSE get_large_prime

get_value(self) == self.value

is_in_bounds_off_by_one(self) ==
    0 <= get_value(self) /\ get_value(self) <= get_upper_bound(self)

is_in_bounds(self) ==
    0 <= get_value(self) /\ get_value(self) < get_upper_bound(self)

is_in_bounds_no_zero(self) ==
    1 <= get_value(self) /\ get_value(self) < get_upper_bound(self)

\* BaseElement.__init__ of the class cls ("Q" or "P").
BaseElement_init(cls, data, check_within_bounds) ==
    IF isinstance_str(data) /\ hex_to_int_raises(data.data)
    THEN Raise("ValueError")
    ELSE LET pair == convert_to_element(data)
             self == [variant |-> cls, data |-> pair[1], value |-> pair[2]]
         IN  IF check_within_bounds /\ ~is_in_bounds(self)
             THEN Raise("OverflowError")
             ELSE Ok(self)

ElementModQ(data) == BaseElement_init("Q", data, TRUE)

ElementModP(data) == BaseElement_init("P", data, TRUE)

ZERO_MOD_Q == ElementModQ(PyInt(0)).elem

ONE_MOD_P == ElementModP(PyInt(1)).elem

\* __eq__ as it would be if it told the variants apart.
BaseElement_eq_same_variant(self, other) ==
    \/ /\ isinstance_BaseElement(other)
       /\ other.variant = self.variant
       /\ get_value(self) = get_value(other)
    \/ /\ isinstance_int(other)
       /\ get_value(self) = other.value

\* BaseElement.__eq__
BaseElement_eq(self, other) ==
    \/ /\ isinstance_BaseElement(other)
       /\ get_value(self) = get_value(other)
    \/ /\ isinstance_int(other)
       /\ get_value(self) = other.value

\* _get_mpz
get_mpz(input) ==
    IF isinstance_BaseElement(input) THEN get_value(input) ELSE input.value

(***************************************************************************)
(* gmpy2.invert, gmpy2.powmod, secrets.randbelow                           *)
(***************************************************************************)

\* Extended Euclid: <<g, x, y>> with a * x + b * y = g = gcd(a, b).
RECURSIVE ExtGcd(_, _)
ExtGcd(a, b) ==
    IF b = 0 THEN <<a, 1, 0>>
    ELSE LET r == ExtGcd(b, a % b)
         IN  <<r[1], r[3], r[2] - (a \div b) * r[3]>>

\* invert(x, m) raises ZeroDivisionError: x has no inverse mod m.
invert_raises(x, m) == ExtGcd(x % m, m)[1] # 1

invert(x, m) == ExtGcd(x % m, m)[2] % m

\* Square and multiply, exponent >= 0.
RECURSIVE PowModNat(_, _, _)
PowModNat(b, e, m) ==
    IF e = 0 THEN 1 % m
    ELSE LET h == PowModNat(b, e \div 2, m)
             sq == (h * h) % m
         IN  IF e % 2 = 1 THEN (sq * (b % m)) % m ELSE sq

\* powmod(b, e, m) raises ZeroDivisionError: negative exponent, b not invertible.
powmod_raises(b, e, m) == e < 0 /\ invert_raises(b, m)

powmod(b, e, m) ==
    IF e < 0 THEN PowModNat(invert(b, m), 0 - e, m) ELSE PowModNat(b, e, m)

\* The values randbelow(n) can return.
randbelow(n) == 0..(n - 1)

\* G = 2^R mod P.
get_generator == powmod(2, get_cofactor, get_large_prime)

(***************************************************************************)
(* Conversions                                                             *)
(***************************************************************************)

int_to_q_raising(input) == ElementModQ(input)

hex_to_q(input) ==
    LET r == ElementModQ(input)
    IN  IF r = Raise("OverflowError") THEN None ELSE r

int_to_q(input) ==
    LET r == ElementModQ(input)
    IN  IF r = Raise("OverflowError") THEN None ELSE r

hex_to_p(input) ==
    LET r == ElementModP(input)
    IN  IF r = Raise("OverflowError") THEN None ELSE r

int_to_p(input) ==
    LET r == ElementModP(input)
    IN  IF r = Raise("OverflowError") THEN None ELSE r

(***************************************************************************)
(* Arithmetic                                                              *)
(***************************************************************************)

RECURSIVE add_q_loop(_, _)
add_q_loop(sum, elems) ==
    IF elems = <<>> THEN sum
    ELSE add_q_loop((sum + get_mpz(Head(elems))) % get_small_prime, Tail(elems))

add_q(elems) == ElementModQ(PyInt(add_q_loop(0, elems)))

negate_q(a) == ElementModQ(PyInt(get_small_prime - get_mpz(a)))

mult_inv_p_zero_for_zero(e) ==
    IF powmod_raises(get_mpz(e), -1, get_large_prime)
    THEN ElementModP(PyInt(0))
    ELSE ElementModP(PyInt(powmod(get_mpz(e), -1, get_large_prime)))

\* The assert raises for zero (with asserts compiled out, powmod raises
\* ZeroDivisionError there instead).
mult_inv_p(e) ==
    IF get_mpz(e) = 0 THEN Raise("AssertionError")
    ELSE IF powmod_raises(get_mpz(e), -1, get_large_prime)
    THEN Raise("ZeroDivisionError")
    ELSE ElementModP(PyInt(powmod(get_mpz(e), -1, get_large_prime)))

pow_p(b, e) ==
    IF powmod_raises(get_mpz(b), get_mpz(e), get_large_prime)
    THEN Raise("ZeroDivisionError")
    ELSE ElementModP(PyInt(powmod(get_mpz(b), get_mpz(e), get_large_prime)))

RECURSIVE mult_p_loop(_, _)
mult_p_loop(product, elems) ==
    IF elems = <<>> THEN product
    ELSE mult_p_loop((product * get_mpz(Head(elems))) % get_large_prime, Tail(elems))

mult_p(elems) == ElementModP(PyInt(mult_p_loop(1, elems)))

g_pow_p(e) == pow_p(PyInt(get_generator), e)

is_valid_residue_unbounded(self) ==
    BaseElement_eq(pow_p(self, PyInt(get_small_prime)).elem, ONE_MOD_P)

\* ElementModP.is_valid_residue
is_valid_residue(self) ==
    LET residue == BaseElement_eq(pow_p(self, PyInt(get_small_prime)).elem, ONE_MOD_P)
    IN  is_in_bounds(self) /\ residue

(***************************************************************************)
(* rand_range_q                                                            *)
(***************************************************************************)

rand_range_q_while_off_by_one(r, s) == r + 1 < s

rand_range_q_while_inclusive(r, s) == r <= s

\* The loop condition: while random < start.
rand_range_q_while(r, s) == r < s

\* return ElementModQ(random)
rand_range_q_return(r, s) == ElementModQ(PyInt(r))

(***************************************************************************)
(* The inputs of the calls.                                                *)
(***************************************************************************)

Ints == (0 - IntMargin)..(get_large_prime + IntMargin)

HexChars == {"0", "1", "6", "7", "A", "a", "B", "-", "x"}

Strings == UNION {[1..n -> HexChars] : n \in 0..MaxHexLen}

Classes == {"Q", "P"}

\* What a caller can hand to a constructor: an int or a str.
Data == {PyInt(n) : n \in Ints} \cup {PyStr(s) : s \in Strings}

\* The elements the constructors build from ints, bounds check on or off.
ElementsOf(cls) ==
    {r.elem : r \in {rr \in {BaseElement_init(cls, PyInt(n), c) : n \in Ints, c \in BOOLEAN} :
                       rr.kind = "ok"}}

Elements == ElementsOf("Q") \cup ElementsOf("P")

\* The elements with the text of a str kept as their data.
ElementsFromStr ==
    {r.elem : r \in {rr \in {BaseElement_init(cls, PyStr(s), TRUE) : cls \in Classes, s \in Strings} :
                       rr.kind = "ok"}}

\* ElementModPOrQorInt
ElementOrInt == Elements \cup {PyInt(n) : n \in Ints}

\* ElementModQorInt
ElementModQorInt == ElementsOf("Q") \cup {PyInt(n) : n \in Ints}

(***************************************************************************)
(* The state machine: one call of one function.                            *)
(***************************************************************************)

Init ==
    /\ op = "import"
    /\ args = [module |-> "group"]
    /\ result = Pending
    /\ pc = "ready"
    /\ start = 0
    /\ random = 0
    /\ draws = 0

\* A call (made at pc = "ready") that runs from entry to return in one step.  No function reads
\* anything an earlier call wrote, so a behaviour is one call from Init.
Call(name, a, r) ==
    /\ op' = name
    /\ args' = a
    /\ result' = r
    /\ pc' = "returned"
    /\ UNCHANGED <<start, random, draws>>

construct ==
    /\ pc = "ready"
    /\ \E cls \in Classes, data \in Data, check_within_bounds \in BOOLEAN :
           Call("construct",
                [cls |-> cls, data |-> data, check_within_bounds |-> check_within_bounds],
                BaseElement_init(cls, data, check_within_bounds))

call_eq ==
    /\ pc = "ready"
    /\ \E self \in Elements \cup ElementsFromStr, other \in ElementOrInt \cup {PyStr(<<"0", "1">>)} :
           Call("__eq__", [self |-> self, other |-> other], Bool(BaseElement_eq(self, other)))

call_is_in_bounds ==
    /\ pc = "ready"
    /\ \E self \in Elements :
           Call("is_in_bounds", [self |-> self], Bool(is_in_bounds(self)))

call_is_in_bounds_no_zero ==
    /\ pc = "ready"
    /\ \E self \in Elements :
           Call("is_in_bounds_no_zero", [self |-> self], Bool(is_in_bounds_no_zero(self)))

call_is_valid_residue ==
    /\ pc = "ready"
    /\ \E self \in ElementsOf("P") :
           Call("is_valid_residue", [self |-> self], Bool(is_valid_residue(self)))

call_hex_to_q ==
    /\ pc = "ready"
    /\ \E s \in Strings : Call("hex_to_q", [input |-> PyStr(s)], hex_to_q(PyStr(s)))

call_int_to_q ==
    /\ pc = "ready"
    /\ \E n \in Ints : Call("int_to_q", [input |-> PyInt(n)], int_to_q(PyInt(n)))

call_hex_to_p ==
    /\ pc = "ready"
    /\ \E s \in Strings : Call("hex_to_p", [input |-> PyStr(s)], hex_to_p(PyStr(s)))

call_int_to_p ==
    /\ pc = "ready"
    /\ \E n \in Ints : Call("int_to_p", [input |-> PyInt(n)], int_to_p(PyInt(n)))

call_add_q ==
    /\ pc = "ready"
    /\ \E elems \in UNION {[1..n -> ElementModQorInt] : n \in 0..2} :
           Call("add_q", [elems |-> elems], add_q(elems))

call_negate_q ==
    /\ pc = "ready"
    /\ \E a \in ElementModQorInt : Call("negate_q", [a |-> a], negate_q(a))

call_mult_inv_p ==
    /\ pc = "ready"
    /\ \E e \in ElementOrInt : Call("mult_inv_p", [e |-> e], mult_inv_p(e))

call_pow_p ==
    /\ pc = "ready"
    /\ \E b \in ElementOrInt, e \in ElementOrInt :
           Call("pow_p", [b |-> b, e |-> e], pow_p(b, e))

call_mult_p ==
    /\ pc = "ready"
    /\ \E elems \in UNION {[1..n -> ElementOrInt] : n \in 0..2} :
           Call("mult_p", [elems |-> elems], mult_p(elems))

call_g_pow_p ==
    /\ pc = "ready"
    /\ \E e \in ElementOrInt : Call("g_pow_p", [e |-> e], g_pow_p(e))

\* rand_range_q, lines 389-390: start = _get_mpz(start); random = 0.
rand_range_q_enter ==
    /\ pc = "ready"
    /\ \E s \in ElementModQorInt :
        /\ args' = [start |-> s]
        /\ start' = get_mpz(s)
    /\ op' = "rand_range_q"
    /\ result' = Pending
    /\ pc' = "while"
    /\ random' = 0
    /\ draws' = 0

\* One turn of the loop that draws the candidate c.
rand_range_q_draw(c) ==
    /\ pc = "while"
    /\ rand_range_q_while(random, start)
    /\ random' = c
    /\ draws' = IF draws < MaxDraws THEN draws + 1 ELSE draws
    /\ UNCHANGED <<op, args, result, pc, start>>

rand_range_q_loop == \E c \in randbelow(get_small_prime) : rand_range_q_draw(c)

\* The loop is left and the element returned.
rand_range_q_exit ==
    /\ pc = "while"
    /\ ~rand_range_q_while(random, start)
    /\ result' = rand_range_q_return(random, start)
    /\ pc' = "returned"
    /\ UNCHANGED <<op, args, start, random, draws>>

Next ==
    \/ construct
    \/ call_eq
    \/ call_is_in_bounds
    \/ call_is_in_bounds_no_zero
    \/ call_is_valid_residue
    \/ call_hex_to_q
    \/ call_int_to_q
    \/ call_hex_to_p
    \/ call_int_to_p
    \/ call_add_q
    \/ call_negate_q
    \/ call_mult_inv_p
    \/ call_pow_p
    \/ call_mult_p
    \/ call_g_pow_p
    \/ rand_range_q_enter
    \/ rand_range_q_loop
    \/ rand_range_q_exit

Spec == Init /\ [][Next]_vars

\* The random source eventually yields a candidate >= start, and a call
\* that can return does.
rand_range_q_draw_ge ==
    \E c \in randbelow(get_small_prime) : c >= start /\ rand_range_q_draw(c)

FairSpec ==
    /\ Spec
    /\ WF_vars(rand_range_q_draw_ge)
    /\ WF_vars(rand_range_q_exit)

(***************************************************************************)
(* Properties                                                              *)
(***************************************************************************)

InQ(v) == 0 <= v /\ v < get_small_prime

InP(v) == 0 <= v /\ v < get_large_prime

Modulus(cls) == IF cls = "Q" THEN get_small_prime ELSE get_large_prime

\* b^n mod m by n multiplications, for b >= 0.
RECURSIVE NaivePow(_, _, _)
NaivePow(b, n, m) == IF n = 0 THEN 1 % m ELSE (b * NaivePow(b, n - 1, m)) % m

Returned(name) == op = name /\ pc = "returned"

\* C1: for every a in [0, Q), a = 0 included, negate_q(a) returns the
\* Q-space element of value (Q - a) mod Q, and add_q(a, negate_q(a)) is the
\* zero element of Q-space; negate_q fails for no in-range a.
C1_negate_q_total ==
    (Returned("negate_q") /\ InQ(get_mpz(args.a))) =>
        /\ result.kind = "ok"
        /\ result.elem.variant = "Q"
        /\ result.elem.value = (get_small_prime - get_mpz(args.a)) % get_small_prime
        /\ add_q(<<args.a, result.elem>>) = Ok(ZERO_MOD_Q)

\* C2 as stated: an ElementModP and an ElementModQ never compare equal, and
\* an element equals a plain int exactly when the int is its value.
C2_variants_never_equal ==
    Returned("__eq__") =>
        /\ (isinstance_BaseElement(args.other) /\ args.other.variant # args.self.variant)
               => result = Bool(FALSE)
        /\ isinstance_int(args.other)
               => result = Bool(args.other.value = args.self.value)

\* C2 as amended: equality is on the integer value alone: an ElementModP x
\* and an ElementModQ y compare equal exactly when they hold the same
\* integer value, and an element equals a plain int exactly when the int is
\* its value.
C2_eq_on_value ==
    Returned("__eq__") =>
        /\ (isinstance_BaseElement(args.other) /\ args.other.variant # args.self.variant)
               => result = Bool(args.other.value = args.self.value)
        /\ isinstance_int(args.other)
               => result = Bool(args.other.value = args.self.value)

C2_witness ==
    /\ Returned("__eq__")
    /\ args.self.variant = "P"
    /\ args.other.variant = "Q"
    /\ args.self.value = args.other.value
    /\ result = Bool(TRUE)

\* C3: every element that is constructed, from an int or from a str that
\* decodes as base 16, has consistent attributes: its hex text decodes to
\* its integer value and int_to_hex of its value is its hex text.
C3_hex_and_value_consistent ==
    (Returned("construct") /\ result.kind = "ok") =>
        /\ ~hex_to_int_raises(result.elem.data)
        /\ hex_to_int(result.elem.data) = result.elem.value
        /\ int_to_hex(result.elem.value) = result.elem.data

\* C4: for every start in [0, Q), 0 included, what rand_range_q(start)
\* returns is a candidate drawn from the random source: at least one draw
\* happens in a call, and the result is the last candidate drawn.
C4_result_is_a_drawn_candidate ==
    (Returned("rand_range_q") /\ InQ(start)) =>
        /\ draws >= 1
        /\ result.kind = "ok"
        /\ result.elem.value = random

\* C5: strict construction of an ElementModQ or ElementModP succeeds if and
\* only if the integer value v has 0 <= v < modulus; otherwise (v = modulus
\* and v = -1 included) it raises OverflowError and yields no element.  An
\* element of value 0 reports is_in_bounds() true and
\* is_in_bounds_no_zero() false.
C5_strict_construction ==
    /\ (/\ Returned("construct")
        /\ args.check_within_bounds
        /\ ~(isinstance_str(args.data) /\ hex_to_int_raises(args.data.data))) =>
           LET v == IF isinstance_str(args.data)
                    THEN hex_to_int(args.data.data) ELSE args.data.value
               inside == 0 <= v /\ v < Modulus(args.cls)
           IN  /\ inside => /\ result.kind = "ok"
                            /\ result.elem.variant = args.cls
                            /\ result.elem.value = v
               /\ ~inside => result = Raise("OverflowError")
    /\ (Returned("is_in_bounds") /\ args.self.value = 0) => result = Bool(TRUE)
    /\ (Returned("is_in_bounds_no_zero") /\ args.self.value = 0) => result = Bool(FALSE)

C5_witness ==
    /\ Returned("construct")
    /\ args.check_within_bounds
    /\ args.cls = "Q"
    /\ args.data = PyInt(get_small_prime)
    /\ result = Raise("OverflowError")

\* C6: for every e with 1 <= e < P, mult_inv_p(e) returns an in-range
\* P-space element and mult_p(e, mult_inv_p(e)) is ONE_MOD_P; mult_inv_p(0)
\* raises and returns no element.
C6_mult_inv_p ==
    Returned("mult_inv_p") =>
        /\ (1 <= get_mpz(args.e) /\ get_mpz(args.e) < get_large_prime) =>
               /\ result.kind = "ok"
               /\ result.elem.variant = "P"
               /\ is_in_bounds(result.elem)
               /\ mult_p(<<args.e, result.elem>>) = Ok(ONE_MOD_P)
        /\ get_mpz(args.e) = 0 => (result.kind = "raise" /\ result.elem = NoValue)

C6_witness ==
    /\ Returned("mult_inv_p")
    /\ get_mpz(args.e) = 2
    /\ result.kind = "ok"
    /\ result.elem.value = 12

C8_rand_range_q_in_range ==
    (Returned("rand_range_q") /\ InQ(get_mpz(args.start))) =>
        /\ result.kind = "ok"
        /\ result.elem.variant = "Q"
        /\ get_mpz(args.start) <= result.elem.value
        /\ result.elem.value < get_small_prime

C8_witness ==
    /\ Returned("rand_range_q")
    /\ get_mpz(args.start) = 5
    /\ draws >= 2
    /\ result.kind = "ok"
    /\ result.elem.value = 5

\* C9: is_valid_residue() on an ElementModP is true if and only if the
\* element is in bounds and value^Q mod P = 1; so g_pow_p(k) is a valid
\* residue for every integer k (0, k >= Q and k < 0 included), and the
\* in-range value 0 is none.
C9_is_valid_residue ==
    /\ Returned("is_valid_residue") =>
           /\ result = Bool(/\ InP(args.self.value)
                            /\ NaivePow(args.self.value, get_small_prime, get_large_prime) = 1)
           /\ args.self.value = 0 => result = Bool(FALSE)
    /\ Returned("g_pow_p") =>
           /\ result.kind = "ok"
           /\ is_valid_residue(result.elem)

C9_witness ==
    /\ Returned("g_pow_p")
    /\ get_mpz(args.e) < 0
    /\ result.kind = "ok"
    /\ result.elem.value # 1
    /\ is_valid_residue(result.elem)

\* C10: for every start in [0, Q), rand_range_q(start) eventually returns
\* when the random source eventually yields a candidate >= start; it does
\* not return while the current candidate is < start, and it makes no draw
\* once it holds a candidate >= start.
C10_rand_range_q_terminates ==
    /\ (pc = "while" /\ InQ(start)) ~> (pc = "returned")
    /\ [][(pc = "while" /\ pc' = "returned") => ~(random < start)]_vars
    /\ [][(pc = "while" /\ <<random, draws>>' # <<random, draws>>) => random < start]_vars

C10_witness ==
    /\ Returned("rand_range_q")
    /\ InQ(start)
    /\ draws >= 2
    /\ result.kind = "ok"

====
